---- MODULE Spec2Model ----
(***************************************************************************)
(* Model of controllers/paymentController.js: the booking store, the four  *)
(* request handlers (createOrder, verifyPayment, handlePaymentFailure,     *)
(* cancelBooking) split at their await points, and the helper functions    *)
(* getRelatedGrounds, calculatePricing and checkSlotConflict.              *)
(*                                                                         *)
(* Encodings.  Ids (booking, ground, gateway order, gateway payment) and   *)
(* signatures are naturals, 0 standing for a missing / null / undefined    *)
(* value (all of them are falsy in JavaScript).  A start time is the       *)
(* number of whole hours since local midnight of date 0, so that           *)
(* getHours() is t % 24 and the day window of date d is [24d, 24d + 24).   *)
(* The wall clock is counted in quarters of an hour since the same origin. *)
(***************************************************************************)
EXTENDS Integers, Sequences, FiniteSets, TLC

VARIABLES
  bookings,   \* the Booking table: a function from the ids present to rows
  nextId,     \* the table's auto-increment counter
  pc,         \* per request slot: the await point the handler is at
  req,        \* per request slot: the request's inputs (req.body / req.params)
  inst,       \* per request slot: the Booking instance the handler holds
  gw,         \* per request slot: what the gateway returned to the handler
  out,        \* what the last step did outwards: a response or a gateway call
  started     \* the number of requests received so far

vars == <<bookings, nextId, pc, req, inst, gw, out, started>>

-----------------------------------------------------------------------------
(* Bounds of the model *)

\* how many requests the server receives in a run
MaxRequests == 3

\* the handlers that may be in flight together
Procs == {1, 2}

-----------------------------------------------------------------------------
(* Program constants *)

\* ground.pricing[pricingKey] || 1000
DefaultPrice == 1000
\* slotEndBuffer.setMinutes(slotEndBuffer.getMinutes() + 30), in quarters
SlotBufferQuarters == 2
\* process.env.RAZORPAY_KEY_SECRET
KeySecret == 7

-----------------------------------------------------------------------------
(* The Ground table (read-only to this controller) *)

PricingKeys == {"Weekday_first_half", "Weekday_second_half",
                "Weekend_first_half", "Weekend_second_half"}

FullPricing(a, b, c, d) ==
  [k \in PricingKeys |->
     CASE k = "Weekday_first_half"  -> a
       [] k = "Weekday_second_half" -> b
       [] k = "Weekend_first_half"  -> c
       [] k = "Weekend_second_half" -> d]

\* G2's table lacks one key and stores 0 under another.
G2Pricing ==
  [k \in PricingKeys \ {"Weekend_second_half"} |->
     CASE k = "Weekday_first_half"  -> 700
       [] k = "Weekday_second_half" -> 0
       [] k = "Weekend_first_half"  -> 1100]

Grounds ==
  (1 :> [id |-> 1, name |-> "G1", pricing |-> FullPricing(800, 1000, 1200, 1500)])
  @@ (2 :> [id |-> 2, name |-> "G2", pricing |-> G2Pricing])
  @@ (3 :> [id |-> 3, name |-> "Mega_Ground",
            pricing |-> FullPricing(1500, 1800, 2000, 2400)])
  @@ (4 :> [id |-> 4, name |-> "Box", pricing |-> FullPricing(500, 600, 700, 800)])

GroundIds == DOMAIN Grounds

GroundFindByPk(groundId) ==
  IF groundId \in GroundIds THEN {Grounds[groundId]} ELSE {}

GroundIdsByName(names) ==
  {g \in GroundIds : Grounds[g].name \in names}

-----------------------------------------------------------------------------
(* Helper functions *)

\* a relation in which G1 and G2 do not see Mega_Ground
getRelatedGrounds_OneWay(groundName) ==
  IF groundName = "Mega_Ground" THEN {"G1", "G2"} ELSE {}

getRelatedGrounds(groundName) ==
  IF groundName = "Mega_Ground" THEN {"G1", "G2"}
  ELSE IF groundName = "G1" \/ groundName = "G2" THEN {"Mega_Ground"}
  ELSE {}

\* date 0 is a Friday (getDay() = 5)
DayOfWeek(startTime) == (5 + (startTime \div 24)) % 7

GetHours(startTime) == startTime % 24

\* a classification that takes Sunday alone for the weekend
PricingKey_SundayOnly(startTime) ==
  LET dayOfWeek   == DayOfWeek(startTime)
      startHour   == GetHours(startTime)
      isWeekend   == dayOfWeek = 0
      isFirstHalf == startHour >= 6 /\ startHour < 18
  IN  IF isWeekend
      THEN (IF isFirstHalf THEN "Weekend_first_half" ELSE "Weekend_second_half")
      ELSE (IF isFirstHalf THEN "Weekday_first_half" ELSE "Weekday_second_half")

\* the pricingKey calculatePricing selects
PricingKey(startTime) ==
  LET dayOfWeek   == DayOfWeek(startTime)
      startHour   == GetHours(startTime)
      isWeekend   == dayOfWeek = 0 \/ dayOfWeek = 6
      isFirstHalf == startHour >= 6 /\ startHour < 18
  IN  IF isWeekend
      THEN (IF isFirstHalf THEN "Weekend_first_half" ELSE "Weekend_second_half")
      ELSE (IF isFirstHalf THEN "Weekday_first_half" ELSE "Weekday_second_half")

\* ground.pricing[pricingKey] || 1000 : undefined and 0 are both falsy
calculatePricing(ground, startTime, duration) ==
  LET pricingKey == PricingKey(startTime)
  IN  IF pricingKey \in DOMAIN ground.pricing /\ ground.pricing[pricingKey] # 0
      THEN ground.pricing[pricingKey]
      ELSE DefaultPrice

-----------------------------------------------------------------------------
(* The Booking table as the controller uses it *)

NoReason == [text |-> "null", status |-> ""]

\* db.Booking.create({... paymentStatus: 'pending', paymentAttempts: 0})
NewBooking(id, groundId, startTime, endTime, duration, totalAmount) ==
  [id |-> id, groundId |-> groundId, startTime |-> startTime,
   endTime |-> endTime, duration |-> duration, totalAmount |-> totalAmount,
   paymentStatus |-> "pending", paymentAttempts |-> 0,
   razorpayOrderId |-> 0, razorpayPaymentId |-> 0, razorpaySignature |-> 0,
   paymentMethod |-> "null", paymentCompletedAt |-> "null",
   paymentFailureReason |-> NoReason]

\* the instance a handler holds when it holds none
NoInst == NewBooking(0, 0, 0, 0, 0, 0)

\* instance.set(values): the given fields replaced, the others kept
SetFields(row, values) ==
  [f \in DOMAIN row |-> IF f \in DOMAIN values THEN values[f] ELSE row[f]]

\* instance.update(values): UPDATE ... SET values WHERE id = instance.id;
\* a row deleted in the meantime is not recreated.
UpdateRow(store, id, values) ==
  IF id \in DOMAIN store
  THEN [store EXCEPT ![id] = SetFields(store[id], values)]
  ELSE store

\* instance.destroy(): DELETE ... WHERE id = instance.id
DestroyRow(store, id) ==
  [i \in DOMAIN store \ {id} |-> store[i]]

\* a query without the paymentStatus condition
OverlappingBookings_AnyStatus(dateObj, relevantGroundIds) ==
  {i \in DOMAIN bookings :
     /\ bookings[i].groundId \in relevantGroundIds
     /\ bookings[i].startTime >= dateObj
     /\ bookings[i].startTime < dateObj + 24}

\* db.Booking.findAll({where: {groundId in ..., startTime in day, paymentStatus in ...}})
OverlappingBookings(dateObj, relevantGroundIds) ==
  {i \in DOMAIN bookings :
     /\ bookings[i].groundId \in relevantGroundIds
     /\ bookings[i].startTime >= dateObj
     /\ bookings[i].startTime < dateObj + 24
     /\ bookings[i].paymentStatus \in {"paid", "processing"}}

\* a loop that compares the hours without the modulo
MultiHourHit_NoWrap(bookingStartHour, duration, startHourNum, i) ==
  \E j \in i .. duration - 1 : bookingStartHour + j = startHourNum

\* for (let i = 0; i < booking.duration; i++) if ((bookingStartHour + i) % 24 === startHourNum) return true
RECURSIVE MultiHourHit(_, _, _, _)
MultiHourHit(bookingStartHour, duration, startHourNum, i) ==
  IF i < duration
  THEN IF (bookingStartHour + i) % 24 = startHourNum
       THEN TRUE
       ELSE MultiHourHit(bookingStartHour, duration, startHourNum, i + 1)
  ELSE FALSE

\* the callback of overlappingBookings.some(...)
BookingHitsHour(booking, startHourNum) ==
  LET bookingStartHour == GetHours(booking.startTime)
  IN  IF booking.duration = 1 /\ bookingStartHour = startHourNum
      THEN TRUE
      ELSE MultiHourHit(bookingStartHour, booking.duration, startHourNum, 0)

checkSlotConflict(startHourNum, dateObj, relevantGroundIds) ==
  \E i \in OverlappingBookings(dateObj, relevantGroundIds) :
     BookingHitsHour(bookings[i], startHourNum)

\* relatedGrounds, allRelevantGroundNames, relevantGroundIds of createOrder
RelevantGroundIds(ground) ==
  GroundIdsByName({ground.name} \cup getRelatedGrounds(ground.name))

-----------------------------------------------------------------------------
(* The gateway *)

\* crypto.createHmac('sha256', secret).update(order_id + '|' + payment_id).digest('hex'):
\* a keyed digest, different for different (key, order id, payment id)
HmacSha256Hex(secret, orderId, paymentId) ==
  secret * 10000 + orderId * 100 + paymentId

\* razorpayOrder.id: one gateway order per booking (receipt booking_<id>)
GatewayOrderId(bookingId) == 10 + bookingId

GatewayStatuses == {"captured", "authorized", "failed"}

-----------------------------------------------------------------------------
(* Requests and responses *)

NoError == [description |-> "", reason |-> ""]

\* now is the handler's const now = new Date()
NoReq == [op |-> "none", fields |-> FALSE, groundId |-> 0, date |-> 0,
          startHour |-> 0, now |-> 0,
          bookingId |-> 0, orderId |-> 0, paymentId |-> 0, signature |-> 0,
          error |-> NoError]

NoGw == [id |-> 0, status |-> "", method |-> "null"]

NoOut == [kind |-> "none", op |-> "", status |-> 0, error |-> "", req |-> NoReq]

\* res.status(status).json(...) in answer to request r
Response(r, status, error) ==
  [kind |-> "response", op |-> r.op, status |-> status, error |-> error,
   req |-> r]

\* a call of the gateway client made while handling request r
GatewayCall(r, op) ==
  [kind |-> "call", op |-> op, status |-> 0, error |-> "", req |-> r]

\* a request arrives at slot p; an arriving request takes the lowest idle slot
Receive(p) ==
  /\ pc[p] = "idle"
  /\ \A q \in Procs : pc[q] = "idle" => p <= q
  /\ started < MaxRequests
  /\ started' = started + 1

\* the handler of slot p returns: its locals are gone
Finish(p) ==
  /\ pc' = [pc EXCEPT ![p] = "idle"]
  /\ req' = [req EXCEPT ![p] = NoReq]
  /\ inst' = [inst EXCEPT ![p] = NoInst]
  /\ gw' = [gw EXCEPT ![p] = NoGw]

Init ==
  /\ bookings = <<>>
  /\ nextId = 1
  /\ pc = [p \in Procs |-> "idle"]
  /\ req = [p \in Procs |-> NoReq]
  /\ inst = [p \in Procs |-> NoInst]
  /\ gw = [p \in Procs |-> NoGw]
  /\ out = NoOut
  /\ started = 0

-----------------------------------------------------------------------------
(* createOrder *)

\* What a createOrder request may carry.  A well-formed request asks for
\* 07:00 of date 0 on G1, G2 or Mega_Ground, or for another hour or another
\* date on G1; the others miss a field, or carry an hour out of range, an
\* unknown ground id or a date that does not parse (-1).
InSlots == {<<0, 23>>, <<1, 7>>}

CreateOrderIn(fields, groundId, date, startHour) ==
  [fields |-> fields, groundId |-> groundId, date |-> date,
   startHour |-> startHour]

CreateOrderInputs ==
  {CreateOrderIn(TRUE, g, 0, 7) : g \in {1, 2, 3}}
  \cup {CreateOrderIn(TRUE, 1, s[1], s[2]) : s \in InSlots}
  \cup {CreateOrderIn(FALSE, 1, 0, 7), CreateOrderIn(TRUE, 0, 0, 7),
        CreateOrderIn(TRUE, 1, 0, 24), CreateOrderIn(TRUE, 9, 0, 7),
        CreateOrderIn(TRUE, 1, -1, 7)}

\* What new Date() may return when the handler reads the wall clock, in
\* quarters of an hour: 06:30, 06:45, 07:15 and 07:30 of date 0 for a
\* request for 07:00 of date 0 on G1, and 06:30 of date 0 for the others.
InNow == {26, 27, 29, 30}

ClockReadings(r) ==
  IF r.groundId = 1 /\ r.date = 0 /\ r.startHour = 7 THEN InNow ELSE {26}

\* new Date(date + 'T00:00:00'), as hours
DateObj(date) == date * 24

\* startTime.setHours(startHourNum, 0, 0, 0)
SlotStart(date, startHourNum) == DateObj(date) + startHourNum

\* a check that takes the 30 minutes off the slot's start
SlotIsPast_BeforeStart(startTime, now) ==
  now > startTime * 4 - SlotBufferQuarters

\* now >= slotEndBuffer, the slot's start plus 30 minutes
SlotIsPast(startTime, now) == now >= startTime * 4 + SlotBufferQuarters

Accepted == [status |-> 0, error |-> ""]

\* the checks made before the first await: the error response, or Accepted
ValidationVerdict(fields, groundId, startHour) ==
  IF ~fields \/ groundId = 0
  THEN [status |-> 400, error |-> "All fields are required"]
  ELSE IF startHour < 0 \/ startHour > 23
  THEN [status |-> 400, error |-> "startHour must be between 0 and 23"]
  ELSE Accepted

\* the checks on what db.Ground.findByPk returned and on the parsed date
GroundVerdict(groundId, date) ==
  IF GroundFindByPk(groundId) = {}
  THEN [status |-> 404, error |-> "Ground not found"]
  ELSE IF date < 0
  THEN [status |-> 400, error |-> "Invalid date format"]
  ELSE Accepted

\* the check of the slot against the clock reading now
ClockVerdict(date, startHour, now) ==
  IF SlotIsPast(SlotStart(date, startHour), now)
  THEN [status |-> 400, error |-> "Cannot book slots that have less than 30 minutes remaining"]
  ELSE Accepted

\* a createOrder that does not look at what the conflict query returned
ConflictVerdict_NoCheck(groundId, date, startHour) == Accepted

\* the check on what checkSlotConflict returned
ConflictVerdict(groundId, date, startHour) ==
  IF checkSlotConflict(startHour, DateObj(date),
                       RelevantGroundIds(Grounds[groundId]))
  THEN [status |-> 400, error |-> "This slot is already booked or conflicts with related grounds"]
  ELSE Accepted

\* the checks of createOrder up to the conflict check, in the code's order,
\* all made against one table: the error response it returns, or Accepted
CreateOrderVerdict(fields, groundId, date, startHour, now) ==
  IF ValidationVerdict(fields, groundId, startHour) # Accepted
  THEN ValidationVerdict(fields, groundId, startHour)
  ELSE IF GroundVerdict(groundId, date) # Accepted
  THEN GroundVerdict(groundId, date)
  ELSE IF ClockVerdict(date, startHour, now) # Accepted
  THEN ClockVerdict(date, startHour, now)
  ELSE ConflictVerdict(groundId, date, startHour)

\* a request arrives; the field checks, then the call of db.Ground.findByPk
CreateOrderReceive(p) ==
  /\ Receive(p)
  /\ \E in \in CreateOrderInputs :
       LET verdict == ValidationVerdict(in.fields, in.groundId, in.startHour)
           r == [NoReq EXCEPT !.op = "createOrder",
                              !.fields = in.fields,
                              !.groundId = in.groundId,
                              !.date = in.date,
                              !.startHour = in.startHour]
       IN  IF verdict = Accepted
           THEN /\ pc' = [pc EXCEPT ![p] = "co_ground"]
                /\ req' = [req EXCEPT ![p] = r]
                /\ out' = NoOut
           ELSE /\ out' = Response(r, verdict.status, verdict.error)
                /\ UNCHANGED <<pc, req>>
  /\ UNCHANGED <<bookings, nextId, inst, gw>>

\* db.Ground.findByPk returns; the ground and the date are checked, the
\* clock is read and the slot checked against it, then the call of
\* db.Ground.findAll
CreateOrderGround(p) ==
  /\ pc[p] = "co_ground"
  /\ UNCHANGED started
  /\ LET verdict == GroundVerdict(req[p].groundId, req[p].date)
     IN  IF verdict # Accepted
         THEN /\ Finish(p)
              /\ out' = Response(req[p], verdict.status, verdict.error)
         ELSE \E now \in ClockReadings(req[p]) :
                LET r == [req[p] EXCEPT !.now = now]
                    past == ClockVerdict(r.date, r.startHour, now)
                IN  IF past # Accepted
                    THEN /\ Finish(p)
                         /\ out' = Response(r, past.status, past.error)
                    ELSE /\ pc' = [pc EXCEPT ![p] = "co_related"]
                         /\ req' = [req EXCEPT ![p] = r]
                         /\ out' = NoOut
                         /\ UNCHANGED <<inst, gw>>
  /\ UNCHANGED <<bookings, nextId>>

\* db.Ground.findAll returns; relevantGroundIds is built from it, then the
\* call of checkSlotConflict, which calls db.Booking.findAll
CreateOrderRelated(p) ==
  /\ pc[p] = "co_related"
  /\ UNCHANGED started
  /\ pc' = [pc EXCEPT ![p] = "co_query"]
  /\ out' = NoOut
  /\ UNCHANGED <<bookings, nextId, req, inst, gw>>

\* a createOrder that creates the row before it looks at what the conflict
\* query returned
CreateOrderQuery_CreateFirst(p) ==
  /\ pc[p] = "co_query"
  /\ UNCHANGED started
  /\ LET verdict == ConflictVerdict(req[p].groundId, req[p].date,
                                    req[p].startHour)
         startTime == SlotStart(req[p].date, req[p].startHour)
     IN  IF verdict = Accepted
         THEN /\ pc' = [pc EXCEPT ![p] = "co_create"]
              /\ out' = NoOut
              /\ UNCHANGED <<bookings, nextId, req, inst, gw>>
         ELSE /\ Finish(p)
              /\ out' = Response(req[p], verdict.status, verdict.error)
              /\ bookings' = bookings @@
                   (nextId :> NewBooking(nextId, req[p].groundId, startTime,
                                         startTime + 1, 1, DefaultPrice))
              /\ nextId' = nextId + 1

\* db.Booking.findAll reads the table and checkSlotConflict returns; a
\* conflict is answered, otherwise the handler goes on to create its record
CreateOrderQuery(p) ==
  /\ pc[p] = "co_query"
  /\ UNCHANGED started
  /\ LET verdict == ConflictVerdict(req[p].groundId, req[p].date,
                                    req[p].startHour)
     IN  IF verdict = Accepted
         THEN /\ pc' = [pc EXCEPT ![p] = "co_create"]
              /\ out' = NoOut
              /\ UNCHANGED <<req, inst, gw>>
         ELSE /\ Finish(p)
              /\ out' = Response(req[p], verdict.status, verdict.error)
  /\ UNCHANGED <<bookings, nextId>>

\* pricing, then db.Booking.create
CreateOrderPersist(p) ==
  /\ pc[p] = "co_create"
  /\ UNCHANGED started
  /\ LET ground      == Grounds[req[p].groundId]
         startTime   == SlotStart(req[p].date, req[p].startHour)
         endTime     == startTime + 1
         duration    == 1
         totalAmount == calculatePricing(ground, startTime, duration)
         booking     == NewBooking(nextId, ground.id, startTime, endTime,
                                   duration, totalAmount)
     IN  /\ bookings' = bookings @@ (nextId :> booking)
         /\ inst' = [inst EXCEPT ![p] = booking]
  /\ nextId' = nextId + 1
  /\ pc' = [pc EXCEPT ![p] = "co_gateway"]
  /\ out' = NoOut
  /\ UNCHANGED <<req, gw>>

\* razorpay.orders.create returns the order, or throws into the catch block
CreateOrderGateway(p) ==
  /\ pc[p] = "co_gateway"
  /\ UNCHANGED started
  /\ \/ /\ gw' = [gw EXCEPT ![p] = [NoGw EXCEPT !.id = GatewayOrderId(inst[p].id)]]
        /\ pc' = [pc EXCEPT ![p] = "co_update"]
        /\ out' = GatewayCall(req[p], "orders.create")
        /\ UNCHANGED <<req, inst>>
     \/ /\ Finish(p)
        /\ out' = Response(req[p], 500, "Internal server error")
  /\ UNCHANGED <<bookings, nextId>>

\* booking.update({razorpayOrderId, paymentStatus: 'processing'}), then 201
CreateOrderUpdate(p) ==
  /\ pc[p] = "co_update"
  /\ UNCHANGED started
  /\ bookings' = UpdateRow(bookings, inst[p].id,
                           [razorpayOrderId |-> gw[p].id,
                            paymentStatus |-> "processing"])
  /\ Finish(p)
  /\ out' = Response([req[p] EXCEPT !.bookingId = inst[p].id], 201, "")
  /\ UNCHANGED nextId

-----------------------------------------------------------------------------
(* verifyPayment *)

\* the booking ids a client may send: those handed out so far and the next
BookingIds == 1 .. nextId

\* the gateway order ids a client may send: those a 201 response has handed
\* out, which the rows hold
OrderIds == {bookings[b].razorpayOrderId : b \in DOMAIN bookings} \ {0}

VerifyIn(bookingId, orderId, paymentId, signature) ==
  [bookingId |-> bookingId, orderId |-> orderId, paymentId |-> paymentId,
   signature |-> signature]

\* What a verifyPayment request may carry: a booking id, an order id, payment
\* id 1 and either the gateway's signature of the two or 5, a signature no
\* key produces; or a request that misses one of the four.
VerifyInputs ==
  UNION {{VerifyIn(b, o, 1, sig) :
             b \in BookingIds, sig \in {5, HmacSha256Hex(KeySecret, o, 1)}} :
         o \in OrderIds}
  \cup {VerifyIn(0, GatewayOrderId(1), 1, 5), VerifyIn(1, 0, 1, 5),
        VerifyIn(1, GatewayOrderId(1), 0, 5), VerifyIn(1, GatewayOrderId(1), 1, 0)}

\* expectedSignature === razorpay_signature
isSignatureValid(orderId, paymentId, signature) ==
  HmacSha256Hex(KeySecret, orderId, paymentId) = signature

\* a verifyPayment that looks the payment up whatever the signature is
AfterSignatureCheck_FetchFirst(valid) == "vp_fetch"

\* if (!isSignatureValid) { update; return 400 } else go on to payments.fetch
AfterSignatureCheck(valid) ==
  IF ~valid THEN "vp_sigfail" ELSE "vp_fetch"

\* a request arrives; the check of the four fields, then the call of
\* db.Booking.findByPk
VerifyReceive(p) ==
  /\ Receive(p)
  /\ \E in \in VerifyInputs :
       LET bookingId == in.bookingId
           orderId   == in.orderId
           paymentId == in.paymentId
           signature == in.signature
           r == [NoReq EXCEPT !.op = "verifyPayment",
                              !.fields = TRUE,
                              !.bookingId = bookingId,
                              !.orderId = orderId,
                              !.paymentId = paymentId,
                              !.signature = signature]
       IN
       IF orderId = 0 \/ paymentId = 0 \/ signature = 0 \/ bookingId = 0
       THEN /\ out' = Response(r, 400, "Missing payment verification details")
            /\ UNCHANGED <<pc, req>>
       ELSE /\ req' = [req EXCEPT ![p] = r]
            /\ pc' = [pc EXCEPT ![p] = "vp_findByPk"]
            /\ out' = NoOut
  /\ UNCHANGED <<bookings, nextId, inst, gw>>

\* db.Booking.findByPk returns the row or null; the signature comparison
VerifyRead(p) ==
  /\ pc[p] = "vp_findByPk"
  /\ UNCHANGED started
  /\ LET r == req[p]
     IN  IF r.bookingId \notin DOMAIN bookings
         THEN /\ Finish(p)
              /\ out' = Response(r, 404, "Booking not found")
         ELSE /\ inst' = [inst EXCEPT ![p] = bookings[r.bookingId]]
              /\ pc' = [pc EXCEPT ![p] =
                          AfterSignatureCheck(
                            isSignatureValid(r.orderId, r.paymentId, r.signature))]
              /\ out' = NoOut
              /\ UNCHANGED <<req, gw>>
  /\ UNCHANGED <<bookings, nextId>>

\* the values of the update after a signature mismatch
SignatureFailedValues(booking) ==
  [paymentAttempts |-> booking.paymentAttempts + 1,
   paymentStatus |-> "failed",
   paymentFailureReason |-> [text |-> "Invalid payment signature", status |-> ""]]

VerifySignatureFailed(p) ==
  /\ pc[p] = "vp_sigfail"
  /\ UNCHANGED started
  /\ bookings' = UpdateRow(bookings, inst[p].id, SignatureFailedValues(inst[p]))
  /\ Finish(p)
  /\ out' = Response(req[p], 400,
                     "Payment verification failed. Invalid signature.")
  /\ UNCHANGED nextId

\* a verifyPayment that takes every status the gateway returns for a success
AfterStatusCheck_AnyStatus(status) == "vp_paid"

\* if (status !== 'captured' && status !== 'authorized') { update; return 400 }
AfterStatusCheck(status) ==
  IF status # "captured" /\ status # "authorized" THEN "vp_notpaid" ELSE "vp_paid"

\* razorpay.payments.fetch returns the payment, or throws
VerifyFetch(p) ==
  /\ pc[p] = "vp_fetch"
  /\ UNCHANGED started
  /\ \/ \E status \in GatewayStatuses :
          /\ gw' = [gw EXCEPT ![p] = [NoGw EXCEPT !.status = status,
                                                  !.method = "upi"]]
          /\ pc' = [pc EXCEPT ![p] = AfterStatusCheck(status)]
     \/ /\ pc' = [pc EXCEPT ![p] = "vp_fetcherr"]
        /\ UNCHANGED gw
  /\ out' = GatewayCall(req[p], "payments.fetch")
  /\ UNCHANGED <<bookings, nextId, req, inst>>

\* an update after a gateway error that does not count the attempt
FetchFailedValues_NoCount(booking) ==
  [paymentStatus |-> "failed",
   paymentFailureReason |->
     [text |-> "Could not fetch payment details from Razorpay", status |-> ""]]

\* the values of the update after payments.fetch threw
FetchFailedValues(booking) ==
  [paymentAttempts |-> booking.paymentAttempts + 1,
   paymentStatus |-> "failed",
   paymentFailureReason |->
     [text |-> "Could not fetch payment details from Razorpay", status |-> ""]]

VerifyFetchFailed(p) ==
  /\ pc[p] = "vp_fetcherr"
  /\ UNCHANGED started
  /\ bookings' = UpdateRow(bookings, inst[p].id, FetchFailedValues(inst[p]))
  /\ Finish(p)
  /\ out' = Response(req[p], 500, "Could not verify payment with Razorpay")
  /\ UNCHANGED nextId

NotSuccessfulValues(booking, r, paymentDetails) ==
  [paymentAttempts |-> booking.paymentAttempts + 1,
   paymentStatus |-> "failed",
   razorpayPaymentId |-> r.paymentId,
   razorpaySignature |-> r.signature,
   paymentFailureReason |->
     [text |-> "Payment status: ", status |-> paymentDetails.status]]

VerifyNotSuccessful(p) ==
  /\ pc[p] = "vp_notpaid"
  /\ UNCHANGED started
  /\ bookings' = UpdateRow(bookings, inst[p].id,
                           NotSuccessfulValues(inst[p], req[p], gw[p]))
  /\ Finish(p)
  /\ out' = Response(req[p], 400, "Payment not successful")
  /\ UNCHANGED nextId

\* an update to 'paid' that also stores the amount in paise as the total
PaidValues_Reprice(booking, r, paymentDetails) ==
  [paymentStatus |-> "paid",
   razorpayPaymentId |-> r.paymentId,
   razorpaySignature |-> r.signature,
   paymentMethod |-> paymentDetails.method,
   paymentCompletedAt |-> "now",
   paymentAttempts |-> booking.paymentAttempts + 1,
   totalAmount |-> booking.totalAmount * 100]

\* the values of the update after a successful verification
PaidValues(booking, r, paymentDetails) ==
  [paymentStatus |-> "paid",
   razorpayPaymentId |-> r.paymentId,
   razorpaySignature |-> r.signature,
   paymentMethod |-> paymentDetails.method,
   paymentCompletedAt |-> "now",
   paymentAttempts |-> booking.paymentAttempts + 1]

VerifyPaid(p) ==
  /\ pc[p] = "vp_paid"
  /\ UNCHANGED started
  /\ bookings' = UpdateRow(bookings, inst[p].id,
                           PaidValues(inst[p], req[p], gw[p]))
  /\ Finish(p)
  /\ out' = Response(req[p], 200, "")
  /\ UNCHANGED nextId

-----------------------------------------------------------------------------
(* handlePaymentFailure *)

InErrors == {NoError, [description |-> "", reason |-> "payment_failed"]}

\* error?.description || error?.reason || 'Payment failed by user'
FailureReasonOf(error) ==
  IF error.description # "" THEN error.description
  ELSE IF error.reason # "" THEN error.reason
  ELSE "Payment failed by user"

\* a request arrives; the check of bookingId, then the call of
\* db.Booking.findByPk
FailureReceive(p) ==
  /\ Receive(p)
  /\ \E bookingId \in {0} \cup BookingIds, error \in InErrors :
       LET r == [NoReq EXCEPT !.op = "handlePaymentFailure",
                              !.fields = TRUE,
                              !.bookingId = bookingId,
                              !.error = error]
       IN
       IF bookingId = 0
       THEN /\ out' = Response(r, 400, "Booking ID is required")
            /\ UNCHANGED <<pc, req>>
       ELSE /\ req' = [req EXCEPT ![p] = r]
            /\ pc' = [pc EXCEPT ![p] = "pf_findByPk"]
            /\ out' = NoOut
  /\ UNCHANGED <<bookings, nextId, inst, gw>>

\* db.Booking.findByPk returns the row or null
FailureRead(p) ==
  /\ pc[p] = "pf_findByPk"
  /\ UNCHANGED started
  /\ IF req[p].bookingId \notin DOMAIN bookings
     THEN /\ Finish(p)
          /\ out' = Response(req[p], 404, "Booking not found")
     ELSE /\ inst' = [inst EXCEPT ![p] = bookings[req[p].bookingId]]
          /\ pc' = [pc EXCEPT ![p] = "pf_update"]
          /\ out' = NoOut
          /\ UNCHANGED <<req, gw>>
  /\ UNCHANGED <<bookings, nextId>>

FailureValues(booking, r) ==
  [paymentStatus |-> "failed",
   paymentAttempts |-> booking.paymentAttempts + 1,
   paymentFailureReason |-> [text |-> FailureReasonOf(r.error), status |-> ""]]

FailureUpdate(p) ==
  /\ pc[p] = "pf_update"
  /\ UNCHANGED started
  /\ bookings' = UpdateRow(bookings, inst[p].id, FailureValues(inst[p], req[p]))
  /\ Finish(p)
  /\ out' = Response(req[p], 200, "")
  /\ UNCHANGED nextId

-----------------------------------------------------------------------------
(* cancelBooking *)

\* a cancelBooking without the check for a paid booking
AfterCancelCheck_NoCheck(booking) == "cb_destroy"

\* if (booking.paymentStatus === 'paid') return 400; else go on to destroy
AfterCancelCheck(booking) ==
  IF booking.paymentStatus = "paid" THEN "idle" ELSE "cb_destroy"

\* a request arrives; the call of db.Booking.findByPk
CancelReceive(p) ==
  /\ Receive(p)
  /\ \E bookingId \in BookingIds :
       /\ req' = [req EXCEPT ![p] = [NoReq EXCEPT !.op = "cancelBooking",
                                                  !.fields = TRUE,
                                                  !.bookingId = bookingId]]
       /\ pc' = [pc EXCEPT ![p] = "cb_findByPk"]
       /\ out' = NoOut
  /\ UNCHANGED <<bookings, nextId, inst, gw>>

\* db.Booking.findByPk returns the row or null; the check for a paid booking
CancelRead(p) ==
  /\ pc[p] = "cb_findByPk"
  /\ UNCHANGED started
  /\ IF req[p].bookingId \notin DOMAIN bookings
     THEN /\ Finish(p)
          /\ out' = Response(req[p], 404, "Booking not found")
     ELSE IF AfterCancelCheck(bookings[req[p].bookingId]) = "idle"
     THEN /\ Finish(p)
          /\ out' = Response(req[p], 400,
                             "Cannot cancel paid booking. Please request refund.")
     ELSE /\ inst' = [inst EXCEPT ![p] = bookings[req[p].bookingId]]
          /\ pc' = [pc EXCEPT ![p] = "cb_destroy"]
          /\ out' = NoOut
          /\ UNCHANGED <<req, gw>>
  /\ UNCHANGED <<bookings, nextId>>

CancelDestroy(p) ==
  /\ pc[p] = "cb_destroy"
  /\ UNCHANGED started
  /\ bookings' = DestroyRow(bookings, inst[p].id)
  /\ Finish(p)
  /\ out' = Response(req[p], 200, "")
  /\ UNCHANGED nextId

-----------------------------------------------------------------------------

Next ==
  \E p \in Procs :
    \/ CreateOrderReceive(p)
    \/ CreateOrderGround(p)
    \/ CreateOrderRelated(p)
    \/ CreateOrderQuery(p)
    \/ CreateOrderPersist(p)
    \/ CreateOrderGateway(p)
    \/ CreateOrderUpdate(p)
    \/ VerifyReceive(p)
    \/ VerifyRead(p)
    \/ VerifySignatureFailed(p)
    \/ VerifyFetch(p)
    \/ VerifyFetchFailed(p)
    \/ VerifyNotSuccessful(p)
    \/ VerifyPaid(p)
    \/ FailureReceive(p)
    \/ FailureRead(p)
    \/ FailureUpdate(p)
    \/ CancelReceive(p)
    \/ CancelRead(p)
    \/ CancelDestroy(p)

Spec == Init /\ [][Next]_vars

\* Requests handled one at a time: a request is received only when no
\* handler is in flight.
Quiescent == \A q \in Procs : pc[q] = "idle"

SerialNext ==
  \E p \in Procs :
    \/ Quiescent /\ CreateOrderReceive(p)
    \/ CreateOrderGround(p)
    \/ CreateOrderRelated(p)
    \/ CreateOrderQuery(p)
    \/ CreateOrderPersist(p)
    \/ CreateOrderGateway(p)
    \/ CreateOrderUpdate(p)
    \/ Quiescent /\ VerifyReceive(p)
    \/ VerifyRead(p)
    \/ VerifySignatureFailed(p)
    \/ VerifyFetch(p)
    \/ VerifyFetchFailed(p)
    \/ VerifyNotSuccessful(p)
    \/ VerifyPaid(p)
    \/ Quiescent /\ FailureReceive(p)
    \/ FailureRead(p)
    \/ FailureUpdate(p)
    \/ Quiescent /\ CancelReceive(p)
    \/ CancelRead(p)
    \/ CancelDestroy(p)

SerialSpec == Init /\ [][SerialNext]_vars

-----------------------------------------------------------------------------
(* createOrder over a table that holds rows written by earlier versions,   *)
(* whose duration is not 1                                                 *)

\* a row as an earlier version left it
LegacyRow(id, groundId, startTime, duration, status) ==
  [NewBooking(id, groundId, startTime, startTime + duration, duration, 1000)
     EXCEPT !.paymentStatus = status,
            !.razorpayOrderId = IF status = "pending" THEN 0 ELSE GatewayOrderId(id),
            !.paymentAttempts = IF status \in {"paid", "failed"} THEN 1 ELSE 0]

LegacyDurations == {0, 1, 2, 9, 25}
\* 07:00 and 23:00 of date 0, 23:00 of date 1
LegacyStarts == {7, 23, 47}
LegacyGrounds == {1, 3, 4}
Statuses == {"pending", "processing", "paid", "failed"}

LegacyRows(id) ==
  {LegacyRow(id, g, t, n, st) :
     g \in LegacyGrounds, t \in LegacyStarts, n \in LegacyDurations, st \in Statuses}

\* the tables: one legacy row, or a current row of G2 and a legacy row
LegacyStores ==
  {(1 :> r) : r \in LegacyRows(1)}
  \cup {(1 :> LegacyRow(1, 2, 7, 1, st)) @@ (2 :> r) :
          st \in {"paid", "failed"}, r \in LegacyRows(2)}

LegacyInit ==
  /\ bookings \in LegacyStores
  /\ nextId = Cardinality(DOMAIN bookings) + 1
  /\ pc = [p \in Procs |-> "idle"]
  /\ req = [p \in Procs |-> NoReq]
  /\ inst = [p \in Procs |-> NoInst]
  /\ gw = [p \in Procs |-> NoGw]
  /\ out = NoOut
  /\ started = MaxRequests - 1

LegacyNext ==
  \E p \in Procs :
    \/ CreateOrderReceive(p)
    \/ CreateOrderGround(p)
    \/ CreateOrderRelated(p)
    \/ CreateOrderQuery(p)
    \/ CreateOrderPersist(p)
    \/ CreateOrderGateway(p)
    \/ CreateOrderUpdate(p)

LegacySpec == LegacyInit /\ [][LegacyNext]_vars

-----------------------------------------------------------------------------
(* createOrder from its pricing step on, for a request that has passed the *)
(* checks, over every ground, every hour and the days of a week and a day  *)

\* Friday (date 0) to the Friday after
PricedDates == 0 .. 7

PricingInit ==
  \E g \in GroundIds, d \in PricedDates, h \in 0 .. 23 :
    /\ bookings = <<>>
    /\ CreateOrderVerdict(TRUE, g, d, h, 0) = Accepted
    /\ nextId = 1
    /\ pc = [p \in Procs |-> IF p = 1 THEN "co_create" ELSE "idle"]
    /\ req = [p \in Procs |->
                IF p = 1
                THEN [NoReq EXCEPT !.op = "createOrder", !.fields = TRUE,
                                   !.groundId = g, !.date = d, !.startHour = h]
                ELSE NoReq]
    /\ inst = [p \in Procs |-> NoInst]
    /\ gw = [p \in Procs |-> NoGw]
    /\ out = NoOut
    /\ started = 1

PricingNext ==
  \E p \in Procs :
    \/ CreateOrderPersist(p)
    \/ CreateOrderGateway(p)
    \/ CreateOrderUpdate(p)

PricingSpec == PricingInit /\ [][PricingNext]_vars

-----------------------------------------------------------------------------
(* Properties *)

\* the handler of slot p returns in this step
Returns(p) == pc[p] # "idle" /\ pc'[p] = "idle"

\* this step writes row b and leaves it 'paid'
WritesPaid(b) ==
  /\ b \in DOMAIN bookings'
  /\ bookings'[b].paymentStatus = "paid"
  /\ (b \in DOMAIN bookings => bookings'[b] # bookings[b])

SignatureMatches(r) ==
  r.signature = HmacSha256Hex(KeySecret, r.orderId, r.paymentId)

\* C1: a row is written 'paid' only by a verifyPayment handler whose request
\* carries the keyed hash of its order id and payment id and to which the
\* gateway lookup returned 'captured' or 'authorized'; that write stores the
\* payment id, the signature and the method and sets paymentAttempts to one
\* more than the handler read.  Conversely a verifyPayment handler with such
\* a signature and such a gateway status leaves its row 'paid'.
C1_PaidIffVerified ==
  [][ /\ \A b \in DOMAIN bookings' :
           WritesPaid(b) =>
             \E p \in Procs :
               /\ Returns(p)
               /\ req[p].op = "verifyPayment"
               /\ req[p].bookingId = b
               /\ SignatureMatches(req[p])
               /\ gw[p].status \in {"captured", "authorized"}
               /\ bookings'[b].paymentAttempts = inst[p].paymentAttempts + 1
               /\ bookings'[b].razorpayPaymentId = req[p].paymentId
               /\ bookings'[b].razorpaySignature = req[p].signature
               /\ bookings'[b].paymentMethod = gw[p].method
      /\ \A p \in Procs :
           ( /\ Returns(p)
             /\ req[p].op = "verifyPayment"
             /\ SignatureMatches(req[p])
             /\ gw[p].status \in {"captured", "authorized"}
             /\ req[p].bookingId \in DOMAIN bookings )
           => /\ req[p].bookingId \in DOMAIN bookings'
              /\ bookings'[req[p].bookingId].paymentStatus = "paid"
    ]_vars

\* a verifyPayment has just answered 200 and its booking is 'paid' after one attempt
C1_Witness ==
  /\ out.kind = "response"
  /\ out.op = "verifyPayment"
  /\ out.status = 200
  /\ out.req.bookingId \in DOMAIN bookings
  /\ bookings[out.req.bookingId].paymentStatus = "paid"
  /\ bookings[out.req.bookingId].paymentAttempts = 1
  /\ bookings[out.req.bookingId].razorpayPaymentId = out.req.paymentId

\* C2: once a row is 'paid', no step changes its paymentStatus.
C2_PaidIsTerminal ==
  [][ \A b \in DOMAIN bookings \cap DOMAIN bookings' :
        bookings[b].paymentStatus = "paid"
          => bookings'[b].paymentStatus = "paid"
    ]_vars

\* C3: a row becomes 'paid' only from 'processing'.
C3_PaidOnlyFromProcessing ==
  [][ \A b \in DOMAIN bookings \cap DOMAIN bookings' :
        (bookings[b].paymentStatus # "paid" /\ bookings'[b].paymentStatus = "paid")
          => bookings[b].paymentStatus = "processing"
    ]_vars

\* C4: the gateway's payment lookup is called only by a verifyPayment handler
\* whose request carries the matching signature; a handler whose request does
\* not is waiting for its booking or at its failure write, which it reaches
\* as soon as it has read its booking, and all it does there is to write
\* 'failed' with the reason "Invalid payment signature" and answer 400.
C4_SignatureBeforeLookup ==
  [][ /\ (out'.kind = "call" /\ out'.op = "payments.fetch")
           => /\ SignatureMatches(out'.req)
              /\ \E p \in Procs : pc[p] = "vp_fetch" /\ req[p] = out'.req
      /\ \A p \in Procs :
           (req'[p].op = "verifyPayment" /\ ~SignatureMatches(req'[p]))
             => pc'[p] \in {"vp_findByPk", "vp_sigfail"}
      /\ \A p \in Procs :
           ( /\ pc[p] = "vp_findByPk"
             /\ pc'[p] # pc[p]
             /\ req[p].bookingId \in DOMAIN bookings )
             => /\ pc'[p] = IF SignatureMatches(req[p])
                            THEN "vp_fetch" ELSE "vp_sigfail"
                /\ inst'[p] = bookings[req[p].bookingId]
                /\ out' = NoOut
                /\ bookings' = bookings
      /\ \A p \in Procs :
           (pc[p] = "vp_sigfail" /\ pc'[p] # pc[p])
             => /\ pc'[p] = "idle"
                /\ out' = Response(req[p], 400,
                                   "Payment verification failed. Invalid signature.")
                /\ inst[p].id \in DOMAIN bookings
                     => /\ bookings'[inst[p].id].paymentStatus = "failed"
                        /\ bookings'[inst[p].id].paymentFailureReason.text
                             = "Invalid payment signature"
    ]_vars

\* a verifyPayment with a signature that does not match has just answered 400
\* and left its booking 'failed' for that reason
C4_Witness ==
  /\ out.kind = "response"
  /\ out.op = "verifyPayment"
  /\ out.error = "Payment verification failed. Invalid signature."
  /\ ~SignatureMatches(out.req)
  /\ out.req.bookingId \in DOMAIN bookings
  /\ bookings[out.req.bookingId].paymentStatus = "failed"
  /\ bookings[out.req.bookingId].paymentFailureReason.text = "Invalid payment signature"

\* handler p, a cancelBooking, reads booking b in this step
CancelReads(p, b) ==
  /\ pc[p] = "cb_findByPk"
  /\ pc'[p] # pc[p]
  /\ req[p].op = "cancelBooking"
  /\ req[p].bookingId = b

\* C5: a cancelBooking handler that reads a booking whose status is 'paid'
\* answers 400 and ends, holding no row, and the step changes no row and
\* moves no other handler.
C5_CancelPaidRejected ==
  [][ \A p \in Procs : \A b \in DOMAIN bookings :
        (CancelReads(p, b) /\ bookings[b].paymentStatus = "paid")
          => /\ out' = Response(req[p], 400,
                                "Cannot cancel paid booking. Please request refund.")
             /\ bookings' = bookings
             /\ nextId' = nextId
             /\ pc'[p] = "idle"
             /\ inst[p] = NoInst
             /\ \A q \in Procs \ {p} : pc'[q] = pc[q]
    ]_vars

\* a cancelBooking has just been answered 400 and its booking is there, 'paid'
C5_Witness ==
  /\ out.kind = "response"
  /\ out.op = "cancelBooking"
  /\ out.status = 400
  /\ out.req.bookingId \in DOMAIN bookings
  /\ bookings[out.req.bookingId].paymentStatus = "paid"

\* C6: no step deletes a row whose stored paymentStatus is 'paid'.
C6_PaidNeverDeleted ==
  [][ \A b \in DOMAIN bookings :
        bookings[b].paymentStatus = "paid" => b \in DOMAIN bookings'
    ]_vars

\* C7: a row is deleted only while its status is 'pending' or 'failed'.
C7_DeletedOnlyPendingOrFailed ==
  [][ \A b \in DOMAIN bookings \ DOMAIN bookings' :
        bookings[b].paymentStatus \in {"pending", "failed"}
    ]_vars

\* the slots the conflict properties look at
CheckedDates == {0, 1}
CheckedHours == {0, 7, 23}

\* the hours a row occupies: { (bookingStartHour + i) mod 24 : 0 <= i < duration }
OccupiedHours(row) ==
  {(GetHours(row.startTime) + i) % 24 : i \in 0 .. row.duration - 1}

\* row b holds hour h of date d: it starts on date d, occupies h and is
\* 'paid' or 'processing'
Holds(b, d, h) ==
  /\ bookings[b].startTime \div 24 = d
  /\ h \in OccupiedHours(bookings[b])
  /\ bookings[b].paymentStatus \in {"paid", "processing"}

\* some row of the ground called name holds hour h of date d
GroundHolds(name, d, h) ==
  \E b \in DOMAIN bookings :
     Grounds[bookings[b].groundId].name = name /\ Holds(b, d, h)

\* the id of the ground called name
GroundNamed(name) == CHOOSE g \in GroundIds : Grounds[g].name = name

\* what createOrder answers, in this state, to a well-formed request for a
\* slot that is not past
VerdictFor(name, d, h) ==
  CreateOrderVerdict(TRUE, GroundNamed(name), d, h, 0)

ConflictError ==
  [status |-> 400,
   error |-> "This slot is already booked or conflicts with related grounds"]

\* C8: a request for Mega_Ground is rejected with a conflict when G1 or G2
\* holds the hour on that date, a request for G1 or G2 is rejected when
\* Mega_Ground holds it, and a request for G1 (G2) is accepted when neither
\* G1 (G2) nor Mega_Ground holds it, whatever G2 (G1) holds.
C8_CrossGroundBlocking ==
  \A d \in CheckedDates, h \in CheckedHours :
    /\ (GroundHolds("G1", d, h) \/ GroundHolds("G2", d, h))
         => VerdictFor("Mega_Ground", d, h) = ConflictError
    /\ GroundHolds("Mega_Ground", d, h)
         => /\ VerdictFor("G1", d, h) = ConflictError
            /\ VerdictFor("G2", d, h) = ConflictError
    /\ (~GroundHolds("G1", d, h) /\ ~GroundHolds("Mega_Ground", d, h))
         => VerdictFor("G1", d, h) = Accepted
    /\ (~GroundHolds("G2", d, h) /\ ~GroundHolds("Mega_Ground", d, h))
         => VerdictFor("G2", d, h) = Accepted

\* a request for G1 or G2 has just been rejected with a conflict, and the
\* only ground holding its slot is Mega_Ground
C8_Witness ==
  /\ out.kind = "response"
  /\ out.op = "createOrder"
  /\ out.error = ConflictError.error
  /\ out.req.groundId \in {GroundNamed("G1"), GroundNamed("G2")}
  /\ GroundHolds("Mega_Ground", out.req.date, out.req.startHour)
  /\ ~GroundHolds("G1", out.req.date, out.req.startHour)
  /\ ~GroundHolds("G2", out.req.date, out.req.startHour)
  /\ \E b \in DOMAIN bookings : Grounds[bookings[b].groundId].name = "G1"

\* C9: whenever createOrder would report a conflict for a slot, a 'paid' or
\* 'processing' row that is in the table holds that slot: rows in 'pending'
\* or 'failed' and deleted rows cause no conflict.
C9_OnlyPaidOrProcessingBlock ==
  \A name \in {"G1", "G2", "Mega_Ground"}, d \in CheckedDates, h \in CheckedHours :
    VerdictFor(name, d, h) = ConflictError
      => \E b \in DOMAIN bookings : Holds(b, d, h)

\* a createOrder has just answered 201 for a slot of a ground on which an
\* older row, now 'failed', has the same slot
C9_Witness ==
  /\ out.kind = "response"
  /\ out.op = "createOrder"
  /\ out.status = 201
  /\ out.req.bookingId \in DOMAIN bookings
  /\ \E a \in DOMAIN bookings :
       /\ a < out.req.bookingId
       /\ bookings[a].groundId = out.req.groundId
       /\ bookings[a].startTime = SlotStart(out.req.date, out.req.startHour)
       /\ bookings[a].paymentStatus = "failed"

\* the ground id sets the conflict query is examined with
CheckedGroundSets == {{}, {1}, {2}, {3}, {1, 3}, {2, 3}, {1, 2, 3}, {4}}

\* C10: checkSlotConflict(hour, date, groundIds) is true exactly when some
\* row of one of groundIds, 'paid' or 'processing', that starts within the 24
\* hours from the date's midnight has the hour in
\* { (bookingStartHour + i) mod 24 : 0 <= i < duration }, for every duration.
C10_ConflictIffOccupied ==
  \A h \in 0 .. 23, d \in CheckedDates, gids \in CheckedGroundSets :
    checkSlotConflict(h, DateObj(d), gids)
      <=> \E b \in DOMAIN bookings :
            /\ bookings[b].groundId \in gids
            /\ bookings[b].paymentStatus \in {"paid", "processing"}
            /\ bookings[b].startTime >= DateObj(d)
            /\ bookings[b].startTime < DateObj(d) + 24
            /\ h \in OccupiedHours(bookings[b])

\* a createOrder for 07:00 has just been rejected with a conflict that only
\* a row starting at 23:00 and running past midnight can have caused
C10_Witness ==
  /\ out.kind = "response"
  /\ out.op = "createOrder"
  /\ out.error = ConflictError.error
  /\ out.req.startHour = 7
  /\ \E b \in DOMAIN bookings :
       /\ Holds(b, out.req.date, 7)
       /\ GetHours(bookings[b].startTime) = 23
       /\ bookings[b].duration > 1
       /\ \A c \in DOMAIN bookings \ {b} : ~Holds(c, out.req.date, 7)

\* r passes the checks that come before the clock is read
WellFormed(r) ==
  /\ r.fields
  /\ r.groundId \in GroundIds
  /\ r.startHour \in 0 .. 23
  /\ r.date >= 0

PastSlotError == "Cannot book slots that have less than 30 minutes remaining"

\* handler p, a createOrder whose request is well formed, reads the clock in
\* this step
ReadsClock(p) ==
  /\ pc[p] = "co_ground"
  /\ pc'[p] # "co_ground"
  /\ req[p].op = "createOrder"
  /\ WellFormed(req[p])

\* the request of handler p after this step, with the clock reading
RequestAfter(p) == IF pc'[p] = "idle" THEN out'.req ELSE req'[p]

\* C11 as stated: a well-formed createOrder request whose slot starts less
\* than 30 minutes after the current time, or has already started, is
\* answered 400 and no row is created.
C11_SoonOrPastRejected ==
  [][ \A p \in Procs :
        ( /\ ReadsClock(p)
          /\ SlotStart(req[p].date, req[p].startHour) * 4
               < RequestAfter(p).now + SlotBufferQuarters )
        => /\ out'.kind = "response"
           /\ out'.status = 400
           /\ pc'[p] = "idle"
           /\ bookings' = bookings
    ]_vars

\* C11, amended: a well-formed createOrder request is answered 400 with the
\* past-slot error, its handler ending with no row created or changed,
\* exactly when the current time, as the handler reads it, is 30 minutes or
\* more after the slot's start; otherwise the handler goes on to its
\* conflict check.
C11_PastSlotRejected ==
  [][ /\ \A p \in Procs :
           ReadsClock(p)
           => LET r == RequestAfter(p)
              IN  /\ r = [req[p] EXCEPT !.now = r.now]
                  /\ IF r.now >= SlotStart(r.date, r.startHour) * 4
                                   + SlotBufferQuarters
                     THEN /\ out' = Response(r, 400, PastSlotError)
                          /\ pc'[p] = "idle"
                          /\ inst[p] = NoInst
                          /\ bookings' = bookings
                          /\ nextId' = nextId
                     ELSE /\ pc'[p] = "co_related"
                          /\ out'.error # PastSlotError
      /\ (out'.kind = "response" /\ out'.error = PastSlotError)
           => \E p \in Procs : ReadsClock(p)
    ]_vars

\* a createOrder for a slot that started 30 minutes before has just been
\* rejected as past, and the table holds no row
C11_Witness ==
  /\ out.kind = "response"
  /\ out.op = "createOrder"
  /\ out.status = 400
  /\ out.error = PastSlotError
  /\ out.req.now = SlotStart(out.req.date, out.req.startHour) * 4 + SlotBufferQuarters
  /\ DOMAIN bookings = {}

\* the error answers of the four handlers for a missing or out-of-range
\* input, an absent ground or booking, and a conflict
RejectionErrors ==
  {"All fields are required", "startHour must be between 0 and 23",
   "Ground not found", "Invalid date format", PastSlotError,
   ConflictError.error, "Missing payment verification details",
   "Booking ID is required", "Booking not found"}

\* this step answers a request on its receipt, a createOrder that has not
\* yet passed its conflict check, or a handler that has just looked its
\* booking up
AnswersBeforeWrite ==
  /\ out'.kind = "response"
  /\ \/ started' = started + 1
     \/ \E p \in Procs :
          /\ Returns(p)
          /\ pc[p] \in {"co_ground", "co_query", "vp_findByPk", "pf_findByPk",
                        "cb_findByPk"}

\* C12: a step that answers a request with a validation, not-found or
\* conflict error changes no row, creates and deletes none, and moves no
\* handler but to end one that holds no row; every answer given on receipt,
\* by a createOrder that has not passed its conflict check or by a handler
\* that has just looked its booking up is such an error or cancelBooking's
\* refusal of a paid booking.
C12_RejectionLeavesStore ==
  [][ /\ (out'.kind = "response" /\ out'.error \in RejectionErrors)
           => /\ bookings' = bookings
              /\ nextId' = nextId
              /\ \A p \in Procs :
                   pc'[p] # pc[p] => pc'[p] = "idle" /\ inst[p] = NoInst
              /\ out'.status \in {400, 404}
      /\ AnswersBeforeWrite
           => out'.error \in RejectionErrors
                 \cup {"Cannot cancel paid booking. Please request refund."}
    ]_vars

\* a createOrder has just been answered with the conflict error, and the
\* table holds the one row that was there before, untouched since it became
\* 'processing'
C12_Witness ==
  /\ out.kind = "response"
  /\ out.op = "createOrder"
  /\ out.error = ConflictError.error
  /\ nextId = 2
  /\ DOMAIN bookings = {1}
  /\ bookings[1].paymentStatus = "processing"
  /\ bookings[1].paymentAttempts = 0

\* this step writes row b and leaves it 'failed'
WritesFailed(b) ==
  /\ b \in DOMAIN bookings \cap DOMAIN bookings'
  /\ bookings'[b] # bookings[b]
  /\ bookings'[b].paymentStatus = "failed"

FailureWrites == {"vp_sigfail", "vp_fetcherr", "vp_notpaid", "pf_update"}

\* C13: a write that leaves a row 'failed' is the write of a handler at one
\* of the four failure updates; it sets the row's paymentAttempts to the
\* value the handler read plus 1 and stores a reason that is not empty;
\* after a gateway status s that is not a success the reason holds s and the
\* row holds the request's payment id and signature.  Each of the four
\* updates, the one after a gateway lookup error included, is such a write.
C13_FailedWriteCountsAndExplains ==
  [][ /\ \A b \in DOMAIN bookings :
           WritesFailed(b) =>
             \E p \in Procs :
               Returns(p) /\ pc[p] \in FailureWrites /\ inst[p].id = b
      /\ \A p \in Procs :
           (pc[p] \in FailureWrites /\ Returns(p) /\ inst[p].id \in DOMAIN bookings)
             => LET row == bookings'[inst[p].id]
                IN  /\ row.paymentStatus = "failed"
                    /\ row.paymentAttempts = inst[p].paymentAttempts + 1
                    /\ row.paymentFailureReason # NoReason
                    /\ row.paymentFailureReason.text # ""
                    /\ pc[p] = "vp_notpaid"
                         => /\ row.paymentFailureReason
                                 = [text |-> "Payment status: ", status |-> gw[p].status]
                            /\ gw[p].status \notin {"", "captured", "authorized"}
                            /\ row.razorpayPaymentId = req[p].paymentId
                            /\ row.razorpaySignature = req[p].signature
    ]_vars

\* a verifyPayment to which the gateway returned 'failed' has just been
\* answered, and its booking, which had failed once before, is 'failed' after
\* two attempts with the status in its reason
C13_Witness ==
  /\ out.kind = "response"
  /\ out.op = "verifyPayment"
  /\ out.error = "Payment not successful"
  /\ out.req.bookingId \in DOMAIN bookings
  /\ LET row == bookings[out.req.bookingId]
     IN  /\ row.paymentStatus = "failed"
         /\ row.paymentAttempts = 2
         /\ row.paymentFailureReason = [text |-> "Payment status: ", status |-> "failed"]
         /\ row.razorpayPaymentId = out.req.paymentId
         /\ row.razorpaySignature = out.req.signature

\* C14: a row is created by a createOrder handler with the totalAmount the
\* pricing function gives for its ground and start time, and no step changes
\* the totalAmount of a row.
C14_TotalAmountFrozen ==
  [][ /\ \A b \in DOMAIN bookings' \ DOMAIN bookings :
           /\ bookings'[b].totalAmount
                = calculatePricing(Grounds[bookings'[b].groundId],
                                   bookings'[b].startTime, 1)
           /\ \E p \in Procs : pc[p] = "co_create" /\ pc'[p] = "co_gateway"
      /\ \A b \in DOMAIN bookings \cap DOMAIN bookings' :
           bookings'[b].totalAmount = bookings[b].totalAmount
    ]_vars

\* a booking of G1 at a weekday first-half hour that failed once and was then
\* paid carries the price of G1's table for that key
C14_Witness ==
  \E b \in DOMAIN bookings :
    /\ bookings[b].paymentStatus = "paid"
    /\ bookings[b].paymentAttempts = 2
    /\ bookings[b].groundId = 1
    /\ PricingKey(bookings[b].startTime) = "Weekday_first_half"
    /\ bookings[b].totalAmount = Grounds[1].pricing["Weekday_first_half"]

\* the updates of verifyPayment and handlePaymentFailure that write a status
StatusWrites == FailureWrites \cup {"vp_paid"}

\* C15: no step lowers a row's paymentAttempts, and every status write of a
\* verifyPayment or handlePaymentFailure handler raises its row's
\* paymentAttempts by exactly 1, however the handlers interleave.  (A row
\* starts at 0, only these writes touch the counter and none can raise it by
\* more than 1, so the counter equals the number of such writes once all
\* handlers have returned exactly when each write raises it by 1.)
C15_AttemptsCountWrites ==
  [][ /\ \A b \in DOMAIN bookings \cap DOMAIN bookings' :
           bookings'[b].paymentAttempts >= bookings[b].paymentAttempts
      /\ \A p \in Procs :
           (pc[p] \in StatusWrites /\ Returns(p) /\ inst[p].id \in DOMAIN bookings)
             => bookings'[inst[p].id].paymentAttempts
                  = bookings[inst[p].id].paymentAttempts + 1
    ]_vars

\* C16: a row becomes 'processing' only in the update of the createOrder
\* handler that created it, from 'pending' with paymentAttempts 0, after the
\* gateway returned the order and together with the order's id; a row in
\* 'processing' has a gateway order id; no step moves a row from 'failed' or
\* 'paid' to 'processing' or 'pending'.
C16_ProcessingOnlyFromFreshPending ==
  [][ /\ \A b \in DOMAIN bookings' :
           ( /\ bookings'[b].paymentStatus = "processing"
             /\ (b \in DOMAIN bookings => bookings[b].paymentStatus # "processing") )
           => /\ b \in DOMAIN bookings
              /\ bookings[b].paymentStatus = "pending"
              /\ bookings[b].paymentAttempts = 0
              /\ \E p \in Procs :
                   /\ pc[p] = "co_update"
                   /\ inst[p].id = b
                   /\ gw[p].id # 0
                   /\ bookings'[b].razorpayOrderId = gw[p].id
      /\ \A b \in DOMAIN bookings' :
           bookings'[b].paymentStatus = "processing"
             => bookings'[b].razorpayOrderId # 0
      /\ \A b \in DOMAIN bookings \cap DOMAIN bookings' :
           bookings[b].paymentStatus \in {"failed", "paid"}
             => bookings'[b].paymentStatus \notin {"processing", "pending"}
    ]_vars

\* the day of a start time is a Saturday or a Sunday (date 0 is a Friday)
IsWeekendDay(t) == (t \div 24) % 7 \in {1, 2}

\* the hour of a start time is one of 6 .. 17
IsFirstHalfHour(t) == t % 24 \in 6 .. 17

TimeClass(t) == <<IsWeekendDay(t), IsFirstHalfHour(t)>>

KeyOfClass(class) ==
  IF class[1]
  THEN (IF class[2] THEN "Weekend_first_half" ELSE "Weekend_second_half")
  ELSE (IF class[2] THEN "Weekday_first_half" ELSE "Weekday_second_half")

PricedTimes == {SlotStart(d, h) : d \in PricedDates, h \in 0 .. 23}

\* C17: the price createOrder stored for a booking is the one of the key for
\* (Saturday or Sunday, hour in 6 .. 17) of its start time, and
\* calculatePricing gives the same price, for the same ground, at every
\* start time of the same pair, whatever the duration passed.
C17_PriceDependsOnClass ==
  \A b \in DOMAIN bookings :
    LET t      == bookings[b].startTime
        ground == Grounds[bookings[b].groundId]
    IN  /\ bookings[b].totalAmount = calculatePricing(ground, t, 1)
        /\ PricingKey(t) = KeyOfClass(TimeClass(t))
        /\ \A t2 \in PricedTimes, n \in {0, 1, 2} :
             TimeClass(t2) = TimeClass(t)
               => calculatePricing(ground, t2, n) = bookings[b].totalAmount

\* a booking of G1 for 03:00 of the Sunday is 'processing' at G1's weekend
\* second-half price
C17_Witness ==
  \E b \in DOMAIN bookings :
    /\ bookings[b].groundId = 1
    /\ bookings[b].startTime = SlotStart(2, 3)
    /\ bookings[b].paymentStatus = "processing"
    /\ bookings[b].totalAmount = Grounds[1].pricing["Weekend_second_half"]
    /\ bookings[b].totalAmount # Grounds[1].pricing["Weekday_second_half"]

\* C18: the price stored for a booking is the value its ground's table holds
\* under the selected key when the key is present, whatever the value, and
\* the default only when the key is absent.
C18_StoredValueOrDefault ==
  \A b \in DOMAIN bookings :
    LET key   == PricingKey(bookings[b].startTime)
        table == Grounds[bookings[b].groundId].pricing
    IN  IF key \in DOMAIN table
        THEN bookings[b].totalAmount = table[key]
        ELSE bookings[b].totalAmount = DefaultPrice

\* the rows of the slot of request r, on its ground or a ground that blocks
\* it, whose status is one of statuses
SlotRows(r, statuses) ==
  {c \in DOMAIN bookings :
     /\ bookings[c].groundId \in RelevantGroundIds(Grounds[r.groundId])
     /\ bookings[c].startTime = SlotStart(r.date, r.startHour)
     /\ bookings[c].paymentStatus \in statuses}

\* handler p, a createOrder, gets the result of its conflict query in this
\* step
RunsConflictQuery(p) ==
  /\ pc[p] = "co_query"
  /\ pc'[p] # "co_query"
  /\ req[p].op = "createOrder"

\* C19 as stated: a createOrder request that runs its conflict query when a
\* record of its slot, on its ground or a ground that blocks it, has been
\* persisted and is neither failed nor deleted is rejected with the
\* conflict error.
C19_PersistedRecordBlocks ==
  [][ \A p \in Procs :
        ( /\ RunsConflictQuery(p)
          /\ SlotRows(req[p], {"pending", "processing", "paid"}) # {} )
        => out' = Response(req[p], ConflictError.status, ConflictError.error)
    ]_vars

\* C19, amended: a createOrder request that runs its conflict query is
\* rejected with the conflict error, and no row is created, exactly when a
\* record of its slot, on its ground or a ground that blocks it, is
\* 'processing' or 'paid' at that moment; otherwise, a persisted 'pending'
\* record notwithstanding, it goes on to create its record.
C19_ProcessingRecordBlocks ==
  [][ \A p \in Procs :
        RunsConflictQuery(p)
        => IF SlotRows(req[p], {"processing", "paid"}) # {}
           THEN /\ out' = Response(req[p], ConflictError.status,
                                   ConflictError.error)
                /\ pc'[p] = "idle"
                /\ inst[p] = NoInst
                /\ bookings' = bookings
                /\ nextId' = nextId
           ELSE /\ pc'[p] = "co_create"
                /\ req'[p] = req[p]
                /\ out' = NoOut
    ]_vars

\* two records of the same slot of one ground are 'processing', the second
\* created by a request that has just been answered 201
C19_Witness ==
  /\ out.kind = "response"
  /\ out.op = "createOrder"
  /\ out.status = 201
  /\ out.req.bookingId \in DOMAIN bookings
  /\ bookings[out.req.bookingId].paymentStatus = "processing"
  /\ \E a \in SlotRows(out.req, {"processing"}) :
       /\ a < out.req.bookingId
       /\ bookings[a].groundId = out.req.groundId

\* rows b and c are on the same ground or on two grounds that block each
\* other
GroundsBlock(b, c) ==
  bookings[c].groundId \in RelevantGroundIds(Grounds[bookings[b].groundId])

\* C20: with requests handled one at a time, no two distinct rows of the same
\* date and hour, on the same ground or on two grounds that block each other,
\* are both 'paid' or 'processing'.
C20_NoDoubleBooking ==
  \A b, c \in DOMAIN bookings :
    ( /\ b # c
      /\ bookings[b].startTime = bookings[c].startTime
      /\ GroundsBlock(b, c)
      /\ bookings[b].paymentStatus \in {"paid", "processing"} )
    => bookings[c].paymentStatus \notin {"paid", "processing"}

\* C21: a row is written 'paid' only by a verifyPayment handler whose
\* request carries the gateway order id that createOrder stored on that row.
C21_PaidOnlyWithOwnOrder ==
  [][ \A b \in DOMAIN bookings \cap DOMAIN bookings' :
        WritesPaid(b) =>
          \E p \in Procs :
            /\ Returns(p)
            /\ req[p].op = "verifyPayment"
            /\ req[p].bookingId = b
            /\ bookings[b].razorpayOrderId # 0
            /\ req[p].orderId = bookings[b].razorpayOrderId
    ]_vars

\* C22: when a createOrder request is answered with an error (400, 404 or
\* 500), no row that its handler created is in the table, and an answer
\* given before the handler created a row leaves the table as it was.
C22_ErrorLeavesNoRecord ==
  [][ ( /\ out'.kind = "response"
        /\ out'.op = "createOrder"
        /\ out'.status \in {400, 404, 500} )
      => /\ \A p \in Procs :
              (Returns(p) /\ req[p].op = "createOrder")
                => inst[p].id \notin DOMAIN bookings'
         /\ (\A p \in Procs : ~Returns(p)) => bookings' = bookings
    ]_vars

====
